---------------------------- MODULE Spec2Model ----------------------------
(***************************************************************************)
(* QuickVid: browser-local persistence and reconciliation layer.           *)
(*                                                                         *)
(* The model follows src/utils/localStorage.ts (video store, liked-set     *)
(* store, profile store), src/App.tsx (the in-memory video collection),    *)
(* src/unnamed/part_001 (VideoPlayer: like toggle, comment add),           *)
(* src/views/Upload.tsx (video publish, caption generation),               *)
(* src/services/geminiService.ts, src/types.ts (Profile view: story        *)
(* publish, active stories) and src/components/VideoPlayer.tsx             *)
(* (StoryUploadModal).                                                     *)
(*                                                                         *)
(* localStorage is modelled by the parsed value of the text stored under   *)
(* each key: [kind |-> "null"] when the key is absent, [kind |-> "json"]   *)
(* with the parsed value otherwise.  A setItem call that throws (quota     *)
(* exceeded) is an input of the handler that makes the call: the set of    *)
(* keys whose write throws during that handler.  Text the stores did not   *)
(* write (not valid JSON, or JSON of another shape) has a kind of its own, *)
(* and so has a key whose getItem throws during a call.  A try block is    *)
(* modelled by its outcome, a returned value or an exception, and a        *)
(* try/catch by what the catch makes of an exception.                      *)
(***************************************************************************)
EXTENDS Integers, Sequences, FiniteSets, TLC

VARIABLES
    storage,      \* localStorage: key -> stored value
    videos,       \* App: useState<Video[]> (src/App.tsx:12)
    isLiked,      \* VideoPlayer: useState isLiked, one per mounted player (video id -> BOOLEAN)
    currentView,  \* App: useState<View> (src/App.tsx:11)
    uuidCount,    \* number of uuidv4() values handed out to videos and comments
    last,         \* history: the last handler or store call, its argument and the state before it
    rt,           \* history: progress of a like / unlike round trip on one video
    profile,      \* Profile: useState<ProfileType> (src/types.ts:94)
    loads,        \* history: results of the latest successive loadProfileData() calls
    edit,         \* Profile: isEditing and the edit fields (src/types.ts:103-106)
    stories,      \* the story list handed to Profile as the `stories` prop
    now,          \* the wall clock read by Date.now(), in ms
    ticks,        \* number of clock advances so far
    storyUi,      \* Profile's story modals, StoryUploadModal's state, its unfinished publishes
    form          \* Upload: the useState values of the upload form (src/views/Upload.tsx:16-22)

vars == <<storage, videos, isLiked, currentView, uuidCount, last, rt, profile, loads, edit,
          stories, now, ticks, storyUi, form>>

-----------------------------------------------------------------------------
(* Bounds of the model *)

\* uuidv4() values available to videos and comments in one behaviour
MaxUuid == 2
\* like toggles are explored while |likesCount| stays within this bound
MaxLikes == 1
\* ids of the videos handed directly to addVideo / updateVideo
MaxIds == 2
\* addVideo / updateVideo are explored while the stored list is at most this long
MaxStored == 2
\* stories published in one behaviour
MaxStories == 2
\* clock advances in one behaviour
MaxTicks == 3
\* how many different ids the liked sets handed to the liked-set store draw from
MaxLikedIds == 3
\* FileReaders of one file input that can be at work at once
MaxReads == 2

-----------------------------------------------------------------------------
(* Program constants *)

VIDEOS_KEY == "quickvid_videos"
LIKED_VIDEOS_KEY == "quickvid_liked_videos"
PROFILE_KEY == "quickvid_profile"
Keys == {VIDEOS_KEY, LIKED_VIDEOS_KEY, PROFILE_KEY}

\* a property that reads as `undefined` (absent from the object)
Undefined == "undefined"
\* a File object held in memory (Video.file), and what JSON.stringify makes of one
FileObject == "File"
EmptyObject == "{}"

Null == [kind |-> "null"]
Json(v) == [kind |-> "json", val |-> v]

\* stored text that is not what the store wrote:
\* text that JSON.parse rejects, such as `{oops`
InvalidJson == [kind |-> "invalid"]
\* the text `null`
JsonNull == [kind |-> "jsonNull"]
\* the text `5`
JsonNumber == [kind |-> "number"]
\* the text `"ab"`: a JSON string, iterable character by character
JsonString == [kind |-> "string", val |-> <<"a", "b">>]
\* the text `{}` under a key that holds an array
JsonObject == [kind |-> "object"]
\* what a key reads as while localStorage.getItem(key) throws
Unreadable == [kind |-> "unreadable"]

\* the storage as one store call reads it when getItem throws for the keys in rf
WithReadFaults(st, rf) == [key \in DOMAIN st |-> IF key \in rf THEN Unreadable ELSE st[key]]
\* the storage after that call: a key that was not written keeps its text
AfterReadFaults(st, after) ==
    [key \in DOMAIN st |-> IF after[key] = Unreadable THEN st[key] ELSE after[key]]

\* the outcome of a block of code: it returned val, or it threw
Returned(v) == [threw |-> FALSE, val |-> v]
Thrown == [threw |-> TRUE, val |-> <<>>]
\* try { block } catch { handler }
Catch(block, handler) == IF block.threw THEN handler ELSE block

\* String.prototype.toLowerCase on the strings the model uses
toLowerCase(s) ==
    CASE s = "Você" -> "você"
      [] s = "VOCÊ" -> "você"
      [] s = "QuickVidUser" -> "quickviduser"
      [] s = "Ana" -> "ana"
      [] OTHER -> s

trim_Nothing(s) == s

\* String.prototype.trim on the strings the model uses
trim(s) ==
    CASE s = "  " -> ""
      [] s = " oi " -> "oi"
      [] s = " Você " -> "Você"
      [] OTHER -> s

Range(s) == {s[i] : i \in 1..Len(s)}

-----------------------------------------------------------------------------
(* Video store: src/utils/localStorage.ts *)

shouldIncludeVideo_NoLowerCase(video) ==
    /\ video.description # "teste"
    /\ video.description # "vídeo"
    /\ video.artist # "você"

shouldIncludeVideo(video) ==
    /\ video.description # "teste"
    /\ video.description # "vídeo"
    /\ toLowerCase(video.artist) # "você"

StripFile_KeepFile(video) == video

\* const { file, ...rest } = video
StripFile(video) == [video EXCEPT !.file = Undefined]

\* JSON.stringify followed by JSON.parse of one video: an undefined property is
\* dropped, a File object becomes {}
JsonVideo(video) ==
    [video EXCEPT !.file = IF @ = Undefined THEN Undefined ELSE EmptyObject]

JsonVideos(list) == [i \in 1..Len(list) |-> JsonVideo(list[i])]

\* the try block of loadVideos: getItem, JSON.parse, filter
loadVideosTry(st) ==
    CASE st[VIDEOS_KEY].kind = "json" -> Returned(SelectSeq(st[VIDEOS_KEY].val, shouldIncludeVideo))
      [] st[VIDEOS_KEY].kind = "null" -> Returned(<<>>)
      [] OTHER -> Thrown

loadVideosCall(st) == Catch(loadVideosTry(st), Returned(<<>>))

loadVideos(st) == loadVideosCall(st).val

\* localStorage.setItem(key, JSON.stringify(value)); throws when key \in fl
SetItemThrows(key, fl) == key \in fl

\* a store call that ends in `return loadVideos()`
ReturnLoadVideos(st) ==
    [st |-> st, ret |-> loadVideos(st), threw |-> loadVideosCall(st).threw]

addVideo_NoInclusionCheck(st, fl, newVideo) ==
    LET updatedVideos == <<newVideo>> \o loadVideos(st)
    IN  [st |-> [st EXCEPT ![VIDEOS_KEY] =
                    Json(JsonVideos([i \in 1..Len(updatedVideos) |-> StripFile(updatedVideos[i])]))],
         ret |-> updatedVideos, threw |-> FALSE]

Prepended_AtEnd(newVideo, existingVideos) == Append(existingVideos, newVideo)

\* [newVideo, ...existingVideos]
Prepended(newVideo, existingVideos) == <<newVideo>> \o existingVideos

addVideo(st, fl, newVideo) ==
    IF ~shouldIncludeVideo(newVideo)
    THEN ReturnLoadVideos(st)
    ELSE LET existingVideos == loadVideos(st)
             updatedVideos == Prepended(newVideo, existingVideos)
             videosToStore == [i \in 1..Len(updatedVideos) |-> StripFile(updatedVideos[i])]
         IN  IF SetItemThrows(VIDEOS_KEY, fl)
             THEN ReturnLoadVideos(st)
             ELSE [st |-> [st EXCEPT ![VIDEOS_KEY] = Json(JsonVideos(videosToStore))],
                   ret |-> updatedVideos, threw |-> FALSE]

AddedAsNew_AtEnd(updatedVideo, existingVideos) == Append(existingVideos, updatedVideo)

\* updateVideo, id not found: [updatedVideo, ...existingVideos]
AddedAsNew(updatedVideo, existingVideos) == <<updatedVideo>> \o existingVideos

Replaced_MovedToFront(updatedVideo, existingVideos) ==
    <<updatedVideo>> \o SelectSeq(existingVideos, LAMBDA v : v.id # updatedVideo.id)

\* updateVideo, id found: existingVideos.map(video => video.id === updatedVideo.id ? updatedVideo : video)
Replaced(updatedVideo, existingVideos) ==
    [i \in 1..Len(existingVideos) |->
        IF existingVideos[i].id = updatedVideo.id THEN updatedVideo ELSE existingVideos[i]]

FilteredOut_KeepsAll(updatedVideo, existingVideos) == existingVideos

\* updateVideo, predicate fails: existingVideos.filter(video => video.id !== updatedVideo.id)
FilteredOut(updatedVideo, existingVideos) ==
    SelectSeq(existingVideos, LAMBDA v : v.id # updatedVideo.id)

updateVideo(st, fl, updatedVideo) ==
    LET existingVideos == loadVideos(st)
        found == \E i \in 1..Len(existingVideos) : existingVideos[i].id = updatedVideo.id
        newVideosList ==
            IF shouldIncludeVideo(updatedVideo)
            THEN IF found
                 THEN Replaced(updatedVideo, existingVideos)
                 ELSE AddedAsNew(updatedVideo, existingVideos)
            ELSE FilteredOut(updatedVideo, existingVideos)
        videosToStore == [i \in 1..Len(newVideosList) |-> StripFile(newVideosList[i])]
    IN  IF SetItemThrows(VIDEOS_KEY, fl)
        THEN ReturnLoadVideos(st)
        ELSE [st |-> [st EXCEPT ![VIDEOS_KEY] = Json(JsonVideos(videosToStore))],
              ret |-> newVideosList, threw |-> FALSE]

-----------------------------------------------------------------------------
(* Liked-set store: src/utils/localStorage.ts.  A JavaScript Set keeps      *)
(* insertion order, so a Set<string> is a sequence without repetitions.     *)

SetHas(set, x) == \E i \in 1..Len(set) : set[i] = x
SetAdd(set, x) == IF SetHas(set, x) THEN set ELSE Append(set, x)
SetDelete(set, x) == SelectSeq(set, LAMBDA y : y # x)

\* new Set<string>(array)
RECURSIVE NewSet(_)
NewSet(array) ==
    IF array = <<>> THEN <<>>
    ELSE SetAdd(NewSet(SubSeq(array, 1, Len(array) - 1)), array[Len(array)])

loadLikedVideoIdsTry_Filtered(st) ==
    CASE st[LIKED_VIDEOS_KEY].kind \in {"json", "string"} ->
             Returned(SetDelete(NewSet(st[LIKED_VIDEOS_KEY].val), 1))
      [] st[LIKED_VIDEOS_KEY].kind \in {"null", "jsonNull"} -> Returned(<<>>)
      [] OTHER -> Thrown

\* the try block of loadLikedVideoIds: getItem, JSON.parse, new Set(...).
\* new Set(null) is empty, new Set("ab") holds the characters, new Set(5) and
\* new Set({}) throw (not iterable)
loadLikedVideoIdsTry(st) ==
    CASE st[LIKED_VIDEOS_KEY].kind \in {"json", "string"} -> Returned(NewSet(st[LIKED_VIDEOS_KEY].val))
      [] st[LIKED_VIDEOS_KEY].kind \in {"null", "jsonNull"} -> Returned(<<>>)
      [] OTHER -> Thrown

loadLikedVideoIdsCall(st) == Catch(loadLikedVideoIdsTry(st), Returned(<<>>))

loadLikedVideoIds(st) == loadLikedVideoIdsCall(st).val

saveLikedVideoIdsTry_ClearsVideos(st, fl, likedIds) ==
    IF SetItemThrows(LIKED_VIDEOS_KEY, fl)
    THEN Thrown
    ELSE Returned([st EXCEPT ![LIKED_VIDEOS_KEY] = Json(likedIds), ![VIDEOS_KEY] = Json(<<>>)])

\* the try block of saveLikedVideoIds: setItem(JSON.stringify(Array.from(likedIds)))
saveLikedVideoIdsTry(st, fl, likedIds) ==
    IF SetItemThrows(LIKED_VIDEOS_KEY, fl)
    THEN Thrown
    ELSE Returned([st EXCEPT ![LIKED_VIDEOS_KEY] = Json(likedIds)])

\* a throwing setItem is swallowed
saveLikedVideoIdsCall(st, fl, likedIds) == Catch(saveLikedVideoIdsTry(st, fl, likedIds), Returned(st))

saveLikedVideoIds(st, fl, likedIds) == saveLikedVideoIdsCall(st, fl, likedIds).val

-----------------------------------------------------------------------------
(* Profile store: src/utils/localStorage.ts.  A profile is a function from  *)
(* the names of the properties it has to their values; a property that is   *)
(* not in its DOMAIN reads as undefined.                                    *)

HasField(p, f) == f \in DOMAIN p
SetField(p, f, v) == [x \in (DOMAIN p) \cup {f} |-> IF x = f THEN v ELSE p[x]]

\* Number.prototype.toString for a non-negative integer: its decimal digits
RECURSIVE toString(_)
toString(n) == IF n < 10 THEN <<n>> ELSE Append(toString(n \div 10), n % 10)

\* Math.floor(1000000 + Math.random() * 9000000).toString(), where
\* k = Math.floor(Math.random() * 9000000) is in 0..8999999
GenerateDisplayId(k) == toString(1000000 + k)

\* the try block of saveProfileData: setItem(JSON.stringify(profile))
saveProfileDataTry(st, fl, p) ==
    IF SetItemThrows(PROFILE_KEY, fl)
    THEN Thrown
    ELSE Returned([st EXCEPT ![PROFILE_KEY] = Json(p)])

\* a throwing setItem is swallowed
saveProfileDataCall(st, fl, p) == Catch(saveProfileDataTry(st, fl, p), Returned(st))

saveProfileData(st, fl, p) == saveProfileDataCall(st, fl, p).val

DefaultProfile(uuid, k) ==
    [id |-> uuid,
     username |-> "QuickVidUser",
     bio |-> "Welcome to my QuickVid profile!",
     profilePicture |-> "https://via.placeholder.com/150/000000/FFFFFF?text=QV",
     displayId |-> GenerateDisplayId(k),
     followersCount |-> 0,
     isFollowing |-> FALSE]

MigrateProfile_AlwaysGenerates(storedProfile, k) ==
    LET p1 == SetField(storedProfile, "displayId", GenerateDisplayId(k))
        p2 == IF ~HasField(p1, "followersCount") THEN SetField(p1, "followersCount", 0) ELSE p1
        p3 == IF ~HasField(p2, "isFollowing") THEN SetField(p2, "isFollowing", FALSE) ELSE p2
    IN  p3

\* the three backfills of loadProfileData
MigrateProfile(storedProfile, k) ==
    LET p1 == IF ~HasField(storedProfile, "displayId") \/ storedProfile["displayId"] = <<>>
              THEN SetField(storedProfile, "displayId", GenerateDisplayId(k))
              ELSE storedProfile
        p2 == IF ~HasField(p1, "followersCount") THEN SetField(p1, "followersCount", 0) ELSE p1
        p3 == IF ~HasField(p2, "isFollowing") THEN SetField(p2, "isFollowing", FALSE) ELSE p2
    IN  p3

loadProfileData_NoSave(st, fl, uuid, k) ==
    IF st[PROFILE_KEY].kind = "json"
    THEN [st |-> st, ret |-> MigrateProfile(st[PROFILE_KEY].val, k), threw |-> FALSE]
    ELSE [st |-> st, ret |-> DefaultProfile(uuid, k), threw |-> FALSE]

\* the try block of loadProfileData: getItem, JSON.parse, the backfills and the
\* save.  Reading a property of null throws; so does setting one on a number
\* or a string (module code is strict)
loadProfileDataTry(st, fl, k) ==
    CASE st[PROFILE_KEY].kind = "json" ->
             LET storedProfile == MigrateProfile(st[PROFILE_KEY].val, k)
                 saved == saveProfileDataCall(st, fl, storedProfile)
             IN  [threw |-> saved.threw, st |-> saved.val, ret |-> storedProfile]
      [] st[PROFILE_KEY].kind = "null" -> [threw |-> FALSE, st |-> st, ret |-> Undefined]
      [] OTHER -> [threw |-> TRUE, st |-> st, ret |-> Undefined]

\* uuid: the value uuidv4() returns; k: Math.floor(Math.random() * 9000000)
loadProfileData(st, fl, uuid, k) ==
    LET try == loadProfileDataTry(st, fl, k)
    IN  IF ~try.threw /\ st[PROFILE_KEY].kind = "json"
        THEN try
        ELSE [threw |-> FALSE, st |-> st, ret |-> DefaultProfile(uuid, k)]

-----------------------------------------------------------------------------
(* History values *)

NoVideo ==
    [id |-> 0, src |-> "", description |-> "", caption |-> "", thumbnail |-> "",
     likesCount |-> 0, commentsCount |-> 0, shares |-> 0, artist |-> "",
     file |-> Undefined, commentsData |-> <<>>]

NoLast ==
    [op |-> "none", arg |-> NoVideo, fl |-> {},
     memBefore |-> <<>>, storedBefore |-> <<>>, likedBefore |-> <<>>,
     rf |-> {}, before |-> Null, ret |-> <<>>, threw |-> FALSE, text |-> ""]

\* a handler call: its argument, the writes that threw, and the state before it
Record(op, arg, fl) ==
    [NoLast EXCEPT !.op = op, !.arg = arg, !.fl = fl,
                   !.memBefore = videos, !.storedBefore = loadVideos(storage),
                   !.likedBefore = loadLikedVideoIds(storage)]

\* a store call: also what it returned and whether it threw
RecordCall(op, arg, fl, r) ==
    [Record(op, arg, fl) EXCEPT !.ret = r.ret, !.threw = r.threw]

\* a step whose earlier state is not recorded
Mark(op) == [NoLast EXCEPT !.op = op]

\* a step on a text field: the text typed, or the text the field held before
MarkText(op, text) == [NoLast EXCEPT !.op = op, !.text = text]

NoRoundTrip == [id |-> 0, n |-> 0, phase |-> 0]

NoProfile == [id |-> "none"]

-----------------------------------------------------------------------------
(* The application: src/App.tsx, src/unnamed/part_001 (VideoPlayer),         *)
(* src/unnamed/part_003 (Feed), src/views/Upload.tsx                         *)

\* the keys whose setItem may throw during one handler
FaultSets == SUBSET {VIDEOS_KEY, LIKED_VIDEOS_KEY}
NoFaults == {{}}

\* what the user can have typed into the upload form: <<description, caption>>
FormInputs == {<<"oi", "">>, <<"teste", "legenda">>}
\* what the user can have typed into the comment box
CommentTexts == {"", "  ", " oi "}
\* values of Math.floor(Math.random() * 9000000)
RandomSamples == {0, 234567, 8999999}
\* values of uuidv4() for a synthesized profile
ProfileUuids == {"p1", "p2"}

\* a profile saved by an earlier session (handleSaveClick, src/views/Profile.tsx:68)
SavedProfile(username) ==
    [id |-> "p0", username |-> username, bio |-> "",
     profilePicture |-> "https://via.placeholder.com/150/000000/FFFFFF?text=QV",
     displayId |-> toString(1234567), followersCount |-> 0, isFollowing |-> FALSE]

Index(list, id) == CHOOSE i \in 1..Len(list) : list[i].id = id
HasId(list, id) == \E i \in 1..Len(list) : list[i].id = id

\* VideoPlayer effect on mount: setIsLiked(loadLikedVideoIds().has(video.id)),
\* for every player the Feed renders
MountPlayers(list, st) ==
    [id \in {list[i].id : i \in 1..Len(list)} |-> SetHas(loadLikedVideoIds(st), id)]
NoPlayers == [id \in {} |-> FALSE]

\* App.handleVideoPosted: the updater of setVideos
handleVideoPosted(prevVideos, st, fl, newVideo) ==
    [videos |-> <<newVideo>> \o prevVideos, st |-> addVideo(st, fl, newVideo).st]

\* App.handleVideoUpdate: the updater of setVideos
handleVideoUpdate(prevVideos, st, fl, updatedVideo) ==
    [videos |-> [i \in 1..Len(prevVideos) |->
                    IF prevVideos[i].id = updatedVideo.id THEN updatedVideo ELSE prevVideos[i]],
     st |-> updateVideo(st, fl, updatedVideo).st]

\* VideoPlayer.handleLikeClick: the updated video
LikedVideo_NoDecrement(video, liked) ==
    IF liked THEN video ELSE [video EXCEPT !.likesCount = @ + 1]

LikedVideo(video, liked) ==
    IF liked
    THEN [video EXCEPT !.likesCount = @ - 1]
    ELSE [video EXCEPT !.likesCount = @ + 1]

LikedIds_AlwaysAdds(currentLikedIds, id, liked) == SetAdd(currentLikedIds, id)

\* VideoPlayer.handleLikeClick: the updated liked set
LikedIds(currentLikedIds, id, liked) ==
    IF liked THEN SetDelete(currentLikedIds, id) ELSE SetAdd(currentLikedIds, id)

\* VideoPlayer.handleAddComment: the updated video
CommentedVideo_NoCount(video, newComment) ==
    [video EXCEPT !.commentsData = Append(@, newComment)]

CommentedVideo_Prepends(video, newComment) ==
    [video EXCEPT !.commentsData = <<newComment>> \o @,
                  !.commentsCount = @ + 1]

CommentedVideo(video, newComment) ==
    [video EXCEPT !.commentsData = Append(@, newComment),
                  !.commentsCount = @ + 1]

NewVideo_FixedArtist(uuid, description, caption, username) ==
    [id |-> uuid, src |-> "data:video", description |-> description,
     caption |-> IF caption # "" THEN caption ELSE description,
     thumbnail |-> "data:image", likesCount |-> 0, commentsCount |-> 0, shares |-> 0,
     artist |-> "QuickVidUser", file |-> FileObject, commentsData |-> <<>>]

\* Upload.handlePostVideo: the new video
NewVideo(uuid, description, caption, username) ==
    [id |-> uuid, src |-> "data:video", description |-> description,
     caption |-> IF caption # "" THEN caption ELSE description,
     thumbnail |-> "data:image", likesCount |-> 0, commentsCount |-> 0, shares |-> 0,
     artist |-> username, file |-> FileObject, commentsData |-> <<>>]

storyVars == <<stories, now, ticks, storyUi>>
uploadVars == <<form>>

\* setError(null)
NoError == "null"

\* Upload as it mounts; pending counts the generateVideoCaption() promises
\* that are not settled yet, reading counts the FileReaders of
\* handleFileChange that are at work.
\* isPosting is set and cleared inside handlePostVideo, so it is false
\* whenever a handler starts
EmptyForm ==
    [selectedFile |-> FALSE, videoPreviewUrl |-> FALSE, thumbnailPreviewUrl |-> FALSE,
     reading |-> 0, description |-> "", caption |-> "",
     isGeneratingCaption |-> FALSE, error |-> NoError, pending |-> 0]
profileVars == <<profile, loads, edit>>

\* useState<string | null>(null)
NoPicture == "null"

\* Profile's edit state as useState initializes it; reading counts the
\* FileReaders of handleProfilePictureChange that are at work
NoEdit ==
    [isEditing |-> FALSE, username |-> "", bio |-> "", picture |-> NoPicture,
     reading |-> 0]

\* Profile's two modal flags and StoryUploadModal as they mount; publishing
\* holds the handlePublish calls that are waiting for a file to be read
NoStoryUi ==
    [showStoryUploadModal |-> FALSE, showStoryViewerModal |-> FALSE,
     imageFile |-> FALSE, audioFile |-> FALSE, isUploading |-> FALSE,
     error |-> NoError, publishing |-> <<>>]

\* App mount (a page load): videos come from storage, the feed is shown
AppMounted(st) ==
    /\ videos = loadVideos(st)
    /\ currentView = "feed"
    /\ isLiked = MountPlayers(loadVideos(st), st)

\* NavigationBar: onSelectView(view); the view that was shown unmounts and the
\* new one mounts with its initial state
SelectView(view) ==
    /\ view # currentView
    /\ currentView' = view
    /\ isLiked' = IF view = "feed" THEN MountPlayers(videos, storage) ELSE NoPlayers
    /\ form' = EmptyForm
    /\ last' = Mark("selectView")
    /\ rt' = NoRoundTrip
    /\ UNCHANGED <<storage, videos, uuidCount, profileVars, storyVars>>

\* Upload.handlePostVideo with the form filled in (file, preview and thumbnail
\* present), then App.handleVideoPosted
HandlePostVideo(description, caption, fl) ==
    /\ currentView = "upload"
    /\ uuidCount < MaxUuid
    /\ description # "" \/ caption # ""
    /\ \E uuid \in ProfileUuids, k \in RandomSamples :
        LET loaded == loadProfileData(storage, fl, uuid, k)
            newVideo == NewVideo(uuidCount + 1, description, caption, loaded.ret["username"])
            posted == handleVideoPosted(videos, loaded.st, fl, newVideo)
        IN  /\ videos' = posted.videos
            /\ storage' = posted.st
            /\ currentView' = "feed"
            /\ isLiked' = MountPlayers(posted.videos, posted.st)
            /\ last' = Record("handlePostVideo", newVideo, fl)
    /\ uuidCount' = uuidCount + 1
    /\ rt' = NoRoundTrip
    /\ UNCHANGED <<profileVars, storyVars, uploadVars>>

\* VideoPlayer.handleLikeClick on the player of video id
HandleLikeClick(id, fl) ==
    /\ currentView = "feed"
    /\ id \in DOMAIN isLiked
    /\ LET video == videos[Index(videos, id)]
           currentLikedIds == loadLikedVideoIds(storage)
           updatedVideo == LikedVideo(video, isLiked[id])
           saved == saveLikedVideoIds(storage, fl, LikedIds(currentLikedIds, id, isLiked[id]))
           updated == handleVideoUpdate(videos, saved, fl, updatedVideo)
           stored == loadVideos(storage)
       IN  /\ updatedVideo.likesCount \in -MaxLikes..MaxLikes
           /\ isLiked' = [isLiked EXCEPT ![id] = ~isLiked[id]]
           /\ videos' = updated.videos
           /\ storage' = updated.st
           /\ last' = Record("handleLikeClick", video, fl)
           /\ rt' = IF rt.phase = 1 /\ rt.id = id
                    THEN [rt EXCEPT !.phase = 2]
                    ELSE IF /\ ~SetHas(currentLikedIds, id)
                            /\ HasId(stored, id)
                            /\ stored[Index(stored, id)].likesCount = video.likesCount
                         THEN [id |-> id, n |-> video.likesCount, phase |-> 1]
                         ELSE NoRoundTrip
    /\ UNCHANGED <<currentView, uuidCount, profileVars, storyVars, uploadVars>>

\* VideoPlayer.handleAddComment on the player of video id, with newCommentText = text
HandleAddComment(id, text, fl) ==
    /\ currentView = "feed"
    /\ id \in DOMAIN isLiked
    /\ IF trim(text) # ""
       THEN /\ uuidCount < MaxUuid
            /\ LET video == videos[Index(videos, id)]
                   newComment == [id |-> uuidCount + 1, username |-> "Você",
                                  text |-> trim(text), timestamp |-> now]
                   updatedVideo == CommentedVideo(video, newComment)
                   updated == handleVideoUpdate(videos, storage, fl, updatedVideo)
               IN  /\ videos' = updated.videos
                   /\ storage' = updated.st
                   /\ last' = [Record("handleAddComment", video, fl) EXCEPT
                                   !.text = text, !.before = storage[VIDEOS_KEY]]
            /\ uuidCount' = uuidCount + 1
       ELSE /\ last' = [Record("handleAddComment", videos[Index(videos, id)], {}) EXCEPT
                            !.text = text, !.before = storage[VIDEOS_KEY]]
            /\ UNCHANGED <<videos, storage, uuidCount>>
    /\ rt' = NoRoundTrip
    /\ UNCHANGED <<isLiked, currentView, profileVars, storyVars, uploadVars>>

\* the page is reloaded: App mounts again
Reload ==
    /\ videos' = loadVideos(storage)
    /\ currentView' = "feed"
    /\ isLiked' = MountPlayers(loadVideos(storage), storage)
    /\ last' = Mark("reload")
    /\ rt' = NoRoundTrip
    /\ UNCHANGED <<storage, uuidCount, profileVars, storyVars, uploadVars>>

Init ==
    /\ \E p \in {Null, Json(SavedProfile("Você"))} :
          storage = [key \in Keys |-> IF key = PROFILE_KEY THEN p ELSE Null]
    /\ AppMounted(storage)
    /\ uuidCount = 0
    /\ last = NoLast
    /\ rt = NoRoundTrip
    /\ profile = NoProfile
    /\ loads = <<>>
    /\ stories = <<>>
    /\ now = 0
    /\ ticks = 0
    /\ edit = NoEdit
    /\ storyUi = NoStoryUi
    /\ form = EmptyForm

NextWith(faults) ==
    \/ \E view \in {"feed", "upload", "profile"} : SelectView(view)
    \/ \E f \in FormInputs, fl \in faults : HandlePostVideo(f[1], f[2], fl)
    \/ \E id \in DOMAIN isLiked, fl \in faults : HandleLikeClick(id, fl)
    \/ \E id \in DOMAIN isLiked, t \in CommentTexts, fl \in faults : HandleAddComment(id, t, fl)
    \/ Reload

Next == NextWith(FaultSets)
NextNoFault == NextWith(NoFaults)

\* the application, with storage writes that may throw
Spec == Init /\ [][Next]_vars
\* the application when no storage write throws
SpecNoFault == Init /\ [][NextNoFault]_vars

\* two videos an earlier session left in storage: the first liked, the second
\* commented once
EarlierVideos ==
    <<[NoVideo EXCEPT !.id = 9, !.src = "data:video", !.description = "oi",
                      !.caption = "oi", !.thumbnail = "data:image", !.artist = "Ana",
                      !.likesCount = 1],
      [NoVideo EXCEPT !.id = 8, !.src = "data:video", !.description = "oi",
                      !.caption = "legenda", !.thumbnail = "data:image", !.artist = "Ana",
                      !.commentsCount = 1,
                      !.commentsData = <<[id |-> 7, username |-> "Você",
                                          text |-> "oi", timestamp |-> 0]>>]>>

\* App mount on the storage of an earlier session
InitFeed ==
    /\ storage = [key \in Keys |->
                      CASE key = VIDEOS_KEY -> Json(EarlierVideos)
                        [] key = LIKED_VIDEOS_KEY -> Json(<<9>>)
                        [] OTHER -> Null]
    /\ AppMounted(storage)
    /\ uuidCount = 0
    /\ last = NoLast
    /\ rt = NoRoundTrip
    /\ profile = NoProfile
    /\ loads = <<>>
    /\ stories = <<>>
    /\ now = 0
    /\ ticks = 0
    /\ edit = NoEdit
    /\ storyUi = NoStoryUi
    /\ form = EmptyForm

\* what the user does on the feed
NextFeed ==
    \/ \E id \in DOMAIN isLiked : HandleLikeClick(id, {})
    \/ \E id \in DOMAIN isLiked, t \in CommentTexts : HandleAddComment(id, t, {})
    \/ Reload

\* the feed of an earlier session's videos, no storage write throwing
SpecFeed == InitFeed /\ [][NextFeed]_vars

-----------------------------------------------------------------------------
(* The video store called directly *)

appVars == <<videos, isLiked, currentView, uuidCount, rt>>

\* <<description, artist>> of the videos handed to the store
StoreTexts ==
    {<<"oi", "Ana">>, <<"teste", "Ana">>, <<"vídeo", "Ana">>, <<"oi", "Você">>, <<"oi", "você">>}

\* the videos handed to the store: one that passes the inclusion predicate, with
\* and without likes and a file, and one for each way of failing it
StoreVideos ==
    {[NoVideo EXCEPT !.id = id, !.description = "oi", !.artist = "Ana",
                     !.likesCount = n, !.file = f] :
        id \in 1..MaxIds, n \in {0, 1}, f \in {Undefined, FileObject}}
    \cup
    {[NoVideo EXCEPT !.id = id, !.description = t[1], !.artist = t[2], !.file = FileObject] :
        id \in 1..MaxIds, t \in StoreTexts \ {<<"oi", "Ana">>}}

CallAddVideo(v, fl) ==
    LET r == addVideo(storage, fl, v)
    IN  /\ Len(r.ret) <= MaxStored
        /\ storage' = r.st
        /\ last' = [RecordCall("addVideo", v, fl, r) EXCEPT !.before = storage[VIDEOS_KEY]]
        /\ UNCHANGED <<appVars, profileVars, storyVars, uploadVars>>

CallUpdateVideo(v, fl) ==
    LET r == updateVideo(storage, fl, v)
    IN  /\ Len(r.ret) <= MaxStored
        /\ storage' = r.st
        /\ last' = [RecordCall("updateVideo", v, fl, r) EXCEPT !.before = storage[VIDEOS_KEY]]
        /\ UNCHANGED <<appVars, profileVars, storyVars, uploadVars>>

NextStore ==
    \/ \E v \in StoreVideos : CallAddVideo(v, {})
    \/ \E v \in StoreVideos : CallUpdateVideo(v, {})

\* the video store when no storage write throws
SpecStore == Init /\ [][NextStore]_vars

-----------------------------------------------------------------------------
(* The three stores called directly on a storage that may hold text the      *)
(* stores did not write, with getItem and setItem calls that may throw       *)

\* a profile record with none of the properties of a profile: the text `{}`
NoFields == [f \in {} |-> ""]

\* what each key can hold when the stores are first called
FaultVideoCells ==
    {Null, Json(<<[NoVideo EXCEPT !.id = 1, !.description = "oi", !.artist = "Ana"]>>),
     InvalidJson, JsonNull, JsonNumber, JsonString, JsonObject}
FaultLikedCells ==
    {Null, Json(<<1>>), InvalidJson, JsonNull, JsonNumber, JsonString, JsonObject}
FaultProfileCells ==
    {Null, Json(SavedProfile("Ana")), InvalidJson, JsonNull, Json(NoFields)}

\* the videos handed to the store
FaultVideos ==
    {[NoVideo EXCEPT !.id = 2, !.description = d, !.artist = "Ana", !.file = FileObject] :
        d \in {"oi", "teste"}}

\* the keys whose getItem / setItem may throw during a call on key
FaultsOn(key) == {{}, {key}}

\* one store call: r is what it did on the storage as it read it
StoreCall(op, key, arg, rf, fl, r) ==
    /\ storage' = AfterReadFaults(storage, r.st)
    /\ last' = [RecordCall(op, arg, fl, r) EXCEPT !.rf = rf, !.before = storage[key]]
    /\ UNCHANGED <<appVars, profileVars, storyVars, uploadVars>>

FaultyLoadVideos(rf) ==
    LET st == WithReadFaults(storage, rf)
        r == loadVideosCall(st)
    IN  StoreCall("loadVideos", VIDEOS_KEY, NoVideo, rf, {},
                  [st |-> st, ret |-> r.val, threw |-> r.threw])

FaultyAddVideo(v, rf, fl) ==
    LET r == addVideo(WithReadFaults(storage, rf), fl, v)
    IN  /\ Len(r.ret) <= MaxStored
        /\ StoreCall("addVideo", VIDEOS_KEY, v, rf, fl, r)

FaultyUpdateVideo(v, rf, fl) ==
    LET r == updateVideo(WithReadFaults(storage, rf), fl, v)
    IN  /\ Len(r.ret) <= MaxStored
        /\ StoreCall("updateVideo", VIDEOS_KEY, v, rf, fl, r)

FaultyLoadLikedVideoIds(rf) ==
    LET st == WithReadFaults(storage, rf)
        r == loadLikedVideoIdsCall(st)
    IN  StoreCall("loadLikedVideoIds", LIKED_VIDEOS_KEY, NoVideo, rf, {},
                  [st |-> st, ret |-> r.val, threw |-> r.threw])

FaultySaveLikedVideoIds(likedIds, fl) ==
    LET r == saveLikedVideoIdsCall(storage, fl, likedIds)
    IN  StoreCall("saveLikedVideoIds", LIKED_VIDEOS_KEY, NoVideo, {}, fl,
                  [st |-> r.val, ret |-> likedIds, threw |-> r.threw])

FaultyLoadProfileData(uuid, k, rf, fl) ==
    LET r == loadProfileData(WithReadFaults(storage, rf), fl, uuid, k)
    IN  StoreCall("loadProfileData", PROFILE_KEY, NoVideo, rf, fl, r)

FaultySaveProfileData(p, fl) ==
    LET r == saveProfileDataCall(storage, fl, p)
    IN  StoreCall("saveProfileData", PROFILE_KEY, NoVideo, {}, fl,
                  [st |-> r.val, ret |-> p, threw |-> r.threw])

InitFault ==
    /\ \E v \in FaultVideoCells, l \in FaultLikedCells, p \in FaultProfileCells :
          storage = [key \in Keys |->
                        CASE key = VIDEOS_KEY -> v
                          [] key = LIKED_VIDEOS_KEY -> l
                          [] OTHER -> p]
    /\ videos = <<>>
    /\ currentView = "feed"
    /\ isLiked = NoPlayers
    /\ uuidCount = 0
    /\ last = NoLast
    /\ rt = NoRoundTrip
    /\ profile = NoProfile
    /\ loads = <<>>
    /\ stories = <<>>
    /\ now = 0
    /\ ticks = 0
    /\ edit = NoEdit
    /\ storyUi = NoStoryUi
    /\ form = EmptyForm

NextFault ==
    \/ \E rf \in FaultsOn(VIDEOS_KEY) : FaultyLoadVideos(rf)
    \/ \E v \in FaultVideos, rf, fl \in FaultsOn(VIDEOS_KEY) : FaultyAddVideo(v, rf, fl)
    \/ \E v \in FaultVideos, rf, fl \in FaultsOn(VIDEOS_KEY) : FaultyUpdateVideo(v, rf, fl)
    \/ \E rf \in FaultsOn(LIKED_VIDEOS_KEY) : FaultyLoadLikedVideoIds(rf)
    \/ \E ids \in {<<>>, <<2>>}, fl \in FaultsOn(LIKED_VIDEOS_KEY) :
          FaultySaveLikedVideoIds(ids, fl)
    \/ \E uuid \in ProfileUuids, k \in RandomSamples, rf, fl \in FaultsOn(PROFILE_KEY) :
          FaultyLoadProfileData(uuid, k, rf, fl)
    \/ \E fl \in FaultsOn(PROFILE_KEY) : FaultySaveProfileData(SavedProfile("Você"), fl)

\* the stores under storage faults
SpecFault == InitFault /\ [][NextFault]_vars

-----------------------------------------------------------------------------
(* The liked-set store called directly with every small set of ids, on a     *)
(* storage whose calls do not throw                                          *)

\* the JS sets over the ids 1..MaxLikedIds, each in every insertion order
RECURSIVE SetsOfSize(_)
SetsOfSize(n) ==
    IF n = 0 THEN {<<>>}
    ELSE {SetAdd(set, x) : set \in SetsOfSize(n - 1), x \in 1..MaxLikedIds}
LikedSets == SetsOfSize(MaxLikedIds)

InitLiked ==
    /\ \E l \in {Null, Json(<<1>>)} :
          storage = [key \in Keys |-> IF key = LIKED_VIDEOS_KEY THEN l ELSE Null]
    /\ videos = <<>>
    /\ currentView = "feed"
    /\ isLiked = NoPlayers
    /\ uuidCount = 0
    /\ last = NoLast
    /\ rt = NoRoundTrip
    /\ profile = NoProfile
    /\ loads = <<>>
    /\ stories = <<>>
    /\ now = 0
    /\ ticks = 0
    /\ edit = NoEdit
    /\ storyUi = NoStoryUi
    /\ form = EmptyForm

NextLiked ==
    \/ \E likedIds \in LikedSets : FaultySaveLikedVideoIds(likedIds, {})
    \/ FaultyLoadLikedVideoIds({})

\* the liked-set store alone
SpecLiked == InitLiked /\ [][NextLiked]_vars

-----------------------------------------------------------------------------
(* The upload form and caption generation: src/views/Upload.tsx:15-106,      *)
(* src/services/geminiService.ts:15-61                                       *)

\* what the user can type into the description field
Descriptions == {"", "oi", "teste"}
\* captions generateVideoCaption() can resolve to (trimmed and not empty)
GeneratedCaptions == {"legenda A", "legenda B"}
\* messages of the errors generateVideoCaption() can reject with
CaptionErrors ==
    {"Failed to generate video caption. Please try again.",
     "API Key error: Please select a valid API key with billing enabled. See ai.google.dev/gemini-api/docs/billing"}

\* Upload.handleFileChange: a file was chosen (TRUE) or the choice was cleared
handleFileChange(f, file) ==
    IF file
    THEN [f EXCEPT !.selectedFile = TRUE, !.error = NoError, !.reading = @ + 1,
                   !.caption = "", !.thumbnailPreviewUrl = FALSE]
    ELSE [f EXCEPT !.selectedFile = FALSE, !.videoPreviewUrl = FALSE,
                   !.thumbnailPreviewUrl = FALSE]

HandleFileChange(file) ==
    /\ currentView = "upload"
    /\ file => form.reading < MaxReads
    /\ form' = handleFileChange(form, file)
    /\ last' = MarkText("handleFileChange", form.caption)
    /\ UNCHANGED <<storage, appVars, profileVars, storyVars>>

\* reader.onloadend of handleFileChange, for one of the readers at work: the
\* preview is set to reader.result, a data URL (TRUE) or, when the read
\* failed, null (FALSE)
FileLoaded(result) ==
    /\ form.reading > 0
    /\ form' = [form EXCEPT !.videoPreviewUrl = result, !.reading = @ - 1]
    /\ last' = Mark("fileLoaded")
    /\ UNCHANGED <<storage, appVars, profileVars, storyVars>>

\* Upload.captureFrame, from the capture button or from handleLoadedMetadata;
\* the video element it draws from is rendered while there is a preview
CaptureFrame ==
    /\ currentView = "upload"
    /\ form.videoPreviewUrl
    /\ form' = [form EXCEPT !.thumbnailPreviewUrl = TRUE]
    /\ last' = Mark("captureFrame")
    /\ UNCHANGED <<storage, appVars, profileVars, storyVars>>

\* Upload.handleDescriptionChange
HandleDescriptionChange(text) ==
    /\ currentView = "upload"
    /\ form' = [form EXCEPT !.description = text, !.error = NoError]
    /\ last' = MarkText("handleDescriptionChange", text)
    /\ UNCHANGED <<storage, appVars, profileVars, storyVars>>

ButtonCalls_Always(disabled, loading) == TRUE

\* Button: the <button> is disabled when disabled or loading is set, and a
\* disabled button does not call its onClick
ButtonCalls(disabled, loading) == ~(disabled \/ loading)

\* the disabled prop of the "Gerar Legenda" button
GenerateButtonDisabled(f) == f.description = "" \/ f.isGeneratingCaption

\* the disabled prop of the "Postar Vídeo" button
PostButtonDisabled(f) ==
    ~f.selectedFile \/ f.isGeneratingCaption \/ ~f.thumbnailPreviewUrl

\* Upload.handleGenerateCaption up to its await; the button that calls it is
\* disabled while the description is empty or a caption is being generated
HandleGenerateCaption ==
    /\ currentView = "upload"
    /\ ButtonCalls(GenerateButtonDisabled(form), form.isGeneratingCaption)
    /\ form' = IF form.description = ""
               THEN [form EXCEPT !.error =
                        "Please provide a video description before generating a caption."]
               ELSE [form EXCEPT !.isGeneratingCaption = TRUE, !.error = NoError,
                                 !.pending = @ + 1]
    /\ last' = MarkText("handleGenerateCaption", form.caption)
    /\ UNCHANGED <<storage, appVars, profileVars, storyVars>>

\* handleGenerateCaption after its await, the promise fulfilled
captionFulfilled(f, generatedCaption) ==
    [f EXCEPT !.caption = generatedCaption, !.isGeneratingCaption = FALSE, !.pending = @ - 1]

CaptionFulfilled(generatedCaption) ==
    /\ form.pending > 0
    /\ form' = captionFulfilled(form, generatedCaption)
    /\ last' = MarkText("captionFulfilled", form.caption)
    /\ UNCHANGED <<storage, appVars, profileVars, storyVars>>

captionRejected_Fallback(f, message) ==
    [f EXCEPT !.caption = f.description, !.error = message, !.isGeneratingCaption = FALSE,
              !.pending = @ - 1]

\* handleGenerateCaption after its await, the promise rejected with err.message
captionRejected(f, message) ==
    [f EXCEPT !.error = message, !.isGeneratingCaption = FALSE, !.pending = @ - 1]

CaptionRejected(message) ==
    /\ form.pending > 0
    /\ form' = captionRejected(form, message)
    /\ last' = MarkText("captionRejected", form.caption)
    /\ UNCHANGED <<storage, appVars, profileVars, storyVars>>

\* Upload.handlePostVideo: the message of the check that rejects the form,
\* NoError when every check passes
PostRejection(f) ==
    CASE ~f.selectedFile \/ ~f.videoPreviewUrl -> "Please select a video file to upload."
      [] f.description = "" /\ f.caption = "" ->
             "Please add a description or generate a caption for your video."
      [] ~f.thumbnailPreviewUrl -> "Please capture a thumbnail for your video."
      [] OTHER -> NoError

\* the "Postar Vídeo" button: Upload.handlePostVideo on the form as it is, then
\* App.handleVideoPosted, which shows the feed
ClickPostVideo ==
    /\ currentView = "upload"
    /\ ButtonCalls(PostButtonDisabled(form), FALSE)
    /\ IF PostRejection(form) # NoError
       THEN /\ form' = [form EXCEPT !.error = PostRejection(form)]
            /\ last' = [Record("postRejected", NoVideo, {}) EXCEPT
                            !.before = storage[VIDEOS_KEY]]
            /\ UNCHANGED <<storage, appVars>>
       ELSE /\ uuidCount < MaxUuid
            /\ \E uuid \in ProfileUuids, k \in RandomSamples :
                LET loaded == loadProfileData(storage, {}, uuid, k)
                    newVideo == NewVideo(uuidCount + 1, form.description, form.caption,
                                         loaded.ret["username"])
                    posted == handleVideoPosted(videos, loaded.st, {}, newVideo)
                IN  /\ videos' = posted.videos
                    /\ storage' = posted.st
                    /\ isLiked' = MountPlayers(posted.videos, posted.st)
                    /\ last' = [Record("handlePostVideo", newVideo, {}) EXCEPT
                                    !.before = storage[VIDEOS_KEY]]
            /\ currentView' = "feed"
            /\ uuidCount' = uuidCount + 1
            /\ rt' = NoRoundTrip
            /\ form' = EmptyForm
    /\ UNCHANGED <<profileVars, storyVars>>

\* the upload view is open on an empty store
InitUpload ==
    /\ storage = [key \in Keys |-> Null]
    /\ videos = <<>>
    /\ currentView = "upload"
    /\ isLiked = NoPlayers
    /\ uuidCount = 0
    /\ last = NoLast
    /\ rt = NoRoundTrip
    /\ profile = NoProfile
    /\ loads = <<>>
    /\ stories = <<>>
    /\ now = 0
    /\ ticks = 0
    /\ edit = NoEdit
    /\ storyUi = NoStoryUi
    /\ form = EmptyForm

\* what the user, the file reads and the caption service do to the upload
\* form, the service resolving to one of captions
NextUploadWith(captions) ==
    \/ \E view \in {"feed", "upload"} : SelectView(view)
    \/ \E file \in BOOLEAN : HandleFileChange(file)
    \/ \E result \in BOOLEAN : FileLoaded(result)
    \/ CaptureFrame
    \/ ClickPostVideo
    \/ \E text \in Descriptions : HandleDescriptionChange(text)
    \/ HandleGenerateCaption
    \/ \E c \in captions : CaptionFulfilled(c)
    \/ \E m \in CaptionErrors : CaptionRejected(m)

\* the upload form
SpecUpload == InitUpload /\ [][NextUploadWith({"legenda A"})]_vars

\* the message the page shows: Upload renders its error state; the Feed and
\* its VideoPlayers have no error state and render no message
ErrorShown == IF currentView = "upload" THEN form.error ELSE NoError

\* the upload form, and the comment box of the videos it posted
NextValidation ==
    \/ NextUploadWith(GeneratedCaptions)
    \/ \E id \in DOMAIN isLiked, t \in CommentTexts : HandleAddComment(id, t, {})

\* every input the user interface validates
SpecValidation == InitUpload /\ [][NextValidation]_vars

-----------------------------------------------------------------------------
(* The profile store and the Profile view: src/utils/localStorage.ts,       *)
(* src/types.ts:93-185                                                       *)

\* the properties every stored profile has had since the first version
CoreProfile ==
    [id |-> "p0", username |-> "Ana", bio |-> "",
     profilePicture |-> "https://via.placeholder.com/150/000000/FFFFFF?text=QV"]

\* stored profile records of every vintage: any subset of the later properties
StoredProfiles ==
    {[f \in DOMAIN CoreProfile \cup opt |->
        CASE f = "displayId" -> d
          [] f = "followersCount" -> 7
          [] f = "isFollowing" -> TRUE
          [] OTHER -> CoreProfile[f]] :
        opt \in SUBSET {"displayId", "followersCount", "isFollowing"},
        d \in {<<>>, toString(7654321)}}

\* what the user can have typed into the username field
EditedUsernames == {"", " Você "}
\* what the user can have typed into the bio field
EditedBios == {" oi "}

PushLoad(history, before, r) ==
    LET e == [ret |-> r.ret, before |-> before[PROFILE_KEY], after |-> r.st[PROFILE_KEY]]
    IN  IF history = <<>> THEN <<e>> ELSE <<history[Len(history)], e>>

\* loadProfileData() called by any component
CallLoadProfileData(uuid, k) ==
    LET r == loadProfileData(storage, {}, uuid, k)
    IN  /\ storage' = r.st
        /\ loads' = PushLoad(loads, storage, r)
        /\ last' = Mark("loadProfileData")
        /\ UNCHANGED <<appVars, profile, edit, storyVars, uploadVars>>

\* the edit fields as the mount effect sets them from the loaded profile
EditFields(p) ==
    [NoEdit EXCEPT !.username = p["username"], !.bio = p["bio"],
                   !.picture = p["profilePicture"]]

\* Profile mounts: the useState initializer, then the mount effect
MountProfile(uuid1, k1, uuid2, k2) ==
    LET r1 == loadProfileData(storage, {}, uuid1, k1)
        first == IF r1.ret["displayId"] = <<>>
                 THEN saveProfileData(r1.st, {}, SetField(r1.ret, "displayId", GenerateDisplayId(k1)))
                 ELSE r1.st
        r2 == loadProfileData(first, {}, uuid2, k2)
    IN  /\ profile = NoProfile
        /\ storage' = r2.st
        /\ profile' = r2.ret
        /\ edit' = EditFields(r2.ret)
        /\ loads' = PushLoad(PushLoad(loads, storage, [ret |-> r1.ret, st |-> first]), first, r2)
        /\ last' = Mark("mountProfile")
        /\ UNCHANGED <<appVars, storyVars, uploadVars>>

\* Profile.handleEditClick
HandleEditClick ==
    /\ profile # NoProfile
    /\ edit' = [edit EXCEPT !.isEditing = TRUE]
    /\ last' = Mark("handleEditClick")
    /\ UNCHANGED <<storage, appVars, profile, loads, storyVars, uploadVars>>

\* the username field of the edit form: setEditedUsername(e.target.value)
HandleUsernameChange(text) ==
    /\ profile # NoProfile
    /\ edit.isEditing
    /\ edit' = [edit EXCEPT !.username = text]
    /\ last' = MarkText("setEditedUsername", text)
    /\ UNCHANGED <<storage, appVars, profile, loads, storyVars, uploadVars>>

\* the bio field of the edit form: setEditedBio(e.target.value)
HandleBioChange(text) ==
    /\ profile # NoProfile
    /\ edit.isEditing
    /\ edit' = [edit EXCEPT !.bio = text]
    /\ last' = MarkText("setEditedBio", text)
    /\ UNCHANGED <<storage, appVars, profile, loads, storyVars, uploadVars>>

\* Profile.handleProfilePictureChange with a file picked: a FileReader starts
HandleProfilePictureChange ==
    /\ profile # NoProfile
    /\ edit.isEditing
    /\ edit.reading < MaxReads
    /\ edit' = [edit EXCEPT !.reading = @ + 1]
    /\ last' = Mark("handleProfilePictureChange")
    /\ UNCHANGED <<storage, appVars, profile, loads, storyVars, uploadVars>>

\* reader.onloadend of handleProfilePictureChange, for one of the readers at
\* work: setEditedProfilePicture(reader.result), a data URL or, when the read
\* failed, null
ProfilePictureLoaded(result) ==
    /\ edit.reading > 0
    /\ edit' = [edit EXCEPT !.picture = result, !.reading = @ - 1]
    /\ last' = Mark("profilePictureLoaded")
    /\ UNCHANGED <<storage, appVars, profile, loads, storyVars, uploadVars>>

\* Profile.handleCancelClick
HandleCancelClick ==
    /\ profile # NoProfile
    /\ edit.isEditing
    /\ edit' = [edit EXCEPT !.isEditing = FALSE, !.username = profile["username"],
                            !.bio = profile["bio"], !.picture = profile["profilePicture"]]
    /\ last' = Mark("handleCancelClick")
    /\ UNCHANGED <<storage, appVars, profile, loads, storyVars, uploadVars>>

\* Profile.handleSaveClick: the profile built from the edit fields
handleSaveClick(p, editedUsername, editedBio, editedProfilePicture) ==
    SetField(SetField(SetField(p,
        "username", IF trim(editedUsername) # "" THEN trim(editedUsername) ELSE "QuickVidUser"),
        "bio", trim(editedBio)),
        "profilePicture", IF editedProfilePicture \notin {"", NoPicture}
                          THEN editedProfilePicture
                          ELSE "https://via.placeholder.com/150/000000/FFFFFF?text=QV")

\* the "Salvar Alterações" button of the edit form
HandleSaveClick ==
    /\ profile # NoProfile
    /\ edit.isEditing
    /\ LET updatedProfile == handleSaveClick(profile, edit.username, edit.bio, edit.picture)
       IN  /\ storage' = saveProfileData(storage, {}, updatedProfile)
           /\ profile' = updatedProfile
    /\ edit' = [edit EXCEPT !.isEditing = FALSE]
    /\ loads' = <<>>
    /\ last' = Mark("handleSaveClick")
    /\ UNCHANGED <<appVars, storyVars, uploadVars>>

\* the page is reloaded: the Profile view and its modals are gone until it
\* mounts again, and no unfinished file read outlives the page
UnmountProfile ==
    /\ profile # NoProfile
    /\ profile' = NoProfile
    /\ edit' = NoEdit
    /\ storyUi' = NoStoryUi
    /\ last' = Mark("unmountProfile")
    /\ UNCHANGED <<storage, appVars, loads, stories, now, ticks, uploadVars>>

InitProfile ==
    /\ \E p \in {Null} \cup {Json(sp) : sp \in StoredProfiles} :
          storage = [key \in Keys |-> IF key = PROFILE_KEY THEN p ELSE Null]
    /\ AppMounted(storage)
    /\ uuidCount = 0
    /\ last = NoLast
    /\ rt = NoRoundTrip
    /\ profile = NoProfile
    /\ loads = <<>>
    /\ stories = <<>>
    /\ now = 0
    /\ ticks = 0
    /\ edit = NoEdit
    /\ storyUi = NoStoryUi
    /\ form = EmptyForm

\* what the user does in the edit form, typing these usernames and bios, and
\* what the picture reads end with
NextEditWith(usernames, bios, results) ==
    \/ HandleEditClick
    \/ \E u \in usernames : HandleUsernameChange(u)
    \/ \E b \in bios : HandleBioChange(b)
    \/ HandleProfilePictureChange
    \/ \E result \in results : ProfilePictureLoaded(result)
    \/ HandleCancelClick
    \/ HandleSaveClick

NextProfile ==
    \/ \E uuid \in ProfileUuids, k \in RandomSamples : CallLoadProfileData(uuid, k)
    \/ \E u1, u2 \in ProfileUuids, k1, k2 \in RandomSamples : MountProfile(u1, k1, u2, k2)
    \/ NextEditWith(EditedUsernames, EditedBios, {"data:image", NoPicture})
    \/ UnmountProfile

\* the profile store when no storage write throws
SpecProfile == InitProfile /\ [][NextProfile]_vars

-----------------------------------------------------------------------------
(* Stories: src/components/VideoPlayer.tsx:146-343 (StoryUploadModal),      *)
(* src/types.ts:93-194, 397-411 (Profile view)                              *)

HOUR_MS == 60 * 60 * 1000
DAY_MS == 24 * 60 * 60 * 1000

\* ms the clock can advance between two Date.now() calls of one handler
ClockSkews == {0, 1}
\* ms the clock can advance between two handlers
ClockSteps == {HOUR_MS, DAY_MS}
\* what the user can pick in a file input of the story modal: nothing, a file
\* of the type the input is for, a file of another type
PickedFiles == {"none", "right", "other"}

\* Profile: the stories of the current user, and whether the ring is shown
userStories(list, p) == SelectSeq(list, LAMBDA story : story.userId = p["id"])
hasActiveStories(list, p) == Len(userStories(list, p)) > 0

\* the story modals unmount or lose their instance: StoryUploadModal's state
\* is gone and no unfinished publish belongs to a mounted modal any more
Orphaned(publishing) ==
    [i \in 1..Len(publishing) |-> [publishing[i] EXCEPT !.mounted = FALSE]]

\* setShowStoryUploadModal(true): a modal that is already shown keeps its state
ShowUpload(ui) ==
    IF ui.showStoryUploadModal THEN ui ELSE [ui EXCEPT !.showStoryUploadModal = TRUE]

\* setShowStoryUploadModal(false): StoryUploadModal unmounts
HideUpload(ui) ==
    [ui EXCEPT !.showStoryUploadModal = FALSE, !.imageFile = FALSE, !.audioFile = FALSE,
               !.isUploading = FALSE, !.error = NoError,
               !.publishing = Orphaned(ui.publishing)]

\* the "Adicionar Story" button, shown while not editing and without stories
AddStoryClick ==
    /\ profile # NoProfile
    /\ ~edit.isEditing
    /\ ~hasActiveStories(stories, profile)
    /\ storyUi' = ShowUpload(storyUi)
    /\ last' = Mark("addStoryClick")
    /\ UNCHANGED <<storage, appVars, profileVars, stories, now, ticks, uploadVars>>

\* Profile.handleProfilePictureClick
HandleProfilePictureClick ==
    /\ profile # NoProfile
    /\ storyUi' = IF edit.isEditing THEN storyUi
                  ELSE IF hasActiveStories(stories, profile)
                       THEN [storyUi EXCEPT !.showStoryViewerModal = TRUE]
                       ELSE ShowUpload(storyUi)
    /\ last' = Mark("handleProfilePictureClick")
    /\ UNCHANGED <<storage, appVars, profileVars, stories, now, ticks, uploadVars>>

\* onClose of StoryViewerModal, rendered while the flag is set and the user
\* has stories
CloseStoryViewer ==
    /\ profile # NoProfile
    /\ storyUi.showStoryViewerModal
    /\ hasActiveStories(stories, profile)
    /\ storyUi' = [storyUi EXCEPT !.showStoryViewerModal = FALSE]
    /\ last' = Mark("closeStoryViewer")
    /\ UNCHANGED <<storage, appVars, profileVars, stories, now, ticks, uploadVars>>

\* onClose of StoryUploadModal from its close button
CloseStoryUpload ==
    /\ storyUi.showStoryUploadModal
    /\ storyUi' = HideUpload(storyUi)
    /\ last' = Mark("closeStoryUpload")
    /\ UNCHANGED <<storage, appVars, profileVars, stories, now, ticks, uploadVars>>

\* StoryUploadModal.handleImageChange
HandleImageChange(file) ==
    /\ storyUi.showStoryUploadModal
    /\ storyUi' =
          CASE file = "right" -> [storyUi EXCEPT !.imageFile = TRUE, !.error = NoError]
            [] file = "other" -> [storyUi EXCEPT !.imageFile = FALSE,
                                     !.error = "Please select an image file (e.g., JPG, PNG)."]
            [] OTHER -> [storyUi EXCEPT !.imageFile = FALSE]
    /\ last' = MarkText("handleImageChange", file)
    /\ UNCHANGED <<storage, appVars, profileVars, stories, now, ticks, uploadVars>>

\* StoryUploadModal.handleAudioChange
HandleAudioChange(file) ==
    /\ storyUi.showStoryUploadModal
    /\ storyUi' =
          CASE file = "right" -> [storyUi EXCEPT !.audioFile = TRUE, !.error = NoError]
            [] file = "other" -> [storyUi EXCEPT !.audioFile = FALSE,
                                     !.error = "Please select an audio file (e.g., MP3, WAV)."]
            [] OTHER -> [storyUi EXCEPT !.audioFile = FALSE]
    /\ last' = MarkText("handleAudioChange", file)
    /\ UNCHANGED <<storage, appVars, profileVars, stories, now, ticks, uploadVars>>

\* StoryUploadModal.handlePublish up to its first await, from the "Publicar
\* Story" button: the call keeps the userId and username props and the audio
\* choice of the render it was made in
ClickPublishStory ==
    /\ profile # NoProfile
    /\ storyUi.showStoryUploadModal
    /\ ButtonCalls(~storyUi.imageFile \/ storyUi.isUploading, storyUi.isUploading)
    /\ Len(stories) + Len(storyUi.publishing) < MaxStories
    /\ storyUi' =
          IF ~storyUi.imageFile
          THEN [storyUi EXCEPT !.error = "Please select an image for your story."]
          ELSE [storyUi EXCEPT
                   !.isUploading = TRUE, !.error = NoError,
                   !.publishing = Append(@, [userId |-> profile["id"],
                                             username |-> profile["username"],
                                             audioFile |-> storyUi.audioFile,
                                             awaits |-> "image", mounted |-> TRUE])]
    /\ last' = Mark("handlePublish")
    /\ UNCHANGED <<storage, appVars, profileVars, stories, now, ticks, uploadVars>>

\* a sequence without its i-th element
Without(seq, i) == SubSeq(seq, 1, i - 1) \o SubSeq(seq, i + 1, Len(seq))

\* StoryUploadModal.handlePublish: the story data handed to onPublish
handlePublish(userId, username, audioFile, dateNow) ==
    [userId |-> userId, username |-> username, imageUrl |-> "data:image",
     audioUrl |-> IF audioFile THEN "data:audio" ELSE Undefined, timestamp |-> dateNow]

\* Profile.handlePublishStory: the new story
handlePublishStory(storyData, uuid, dateNow) ==
    [userId |-> storyData.userId, username |-> storyData.username,
     imageUrl |-> storyData.imageUrl, audioUrl |-> storyData.audioUrl,
     timestamp |-> storyData.timestamp, id |-> uuid, expiryTime |-> dateNow + DAY_MS]

\* onStoryPosted: the story joins the story list
onStoryPosted(list, newStory) == Append(list, newStory)

\* handlePublish after an await, the file read: the image was read and the
\* audio is read next
ImageRead(i) ==
    /\ i \in 1..Len(storyUi.publishing)
    /\ storyUi.publishing[i].awaits = "image"
    /\ storyUi.publishing[i].audioFile
    /\ storyUi' = [storyUi EXCEPT !.publishing[i].awaits = "audio"]
    /\ last' = Mark("imageRead")
    /\ UNCHANGED <<storage, appVars, profileVars, stories, now, ticks, uploadVars>>

\* handlePublish after its last await: onPublish (Profile.handlePublishStory,
\* then onStoryPosted), onClose, and the finally block, which acts on the
\* modal the call came from if that is still mounted
PublishStory(i, skew) ==
    /\ i \in 1..Len(storyUi.publishing)
    /\ LET call == storyUi.publishing[i]
           storyData == handlePublish(call.userId, call.username, call.audioFile, now)
           newStory == handlePublishStory(storyData, Len(stories) + 1, now + skew)
       IN  /\ call.awaits = "audio" \/ ~call.audioFile
           /\ stories' = onStoryPosted(stories, newStory)
           /\ storyUi' = [HideUpload([storyUi EXCEPT !.publishing = Without(@, i)])
                             EXCEPT !.showStoryViewerModal = TRUE]
    /\ now' = now + skew
    /\ last' = Mark("publishStory")
    /\ UNCHANGED <<storage, appVars, profileVars, ticks, uploadVars>>

\* handlePublish after an await that rejected: the catch and finally blocks
ReadFailed(i) ==
    /\ i \in 1..Len(storyUi.publishing)
    /\ storyUi' =
          IF storyUi.publishing[i].mounted
          THEN [storyUi EXCEPT !.error = "Failed to publish story. Please try again.",
                               !.isUploading = FALSE,
                               !.publishing = Without(@, i)]
          ELSE [storyUi EXCEPT !.publishing = Without(@, i)]
    /\ last' = Mark("readFailed")
    /\ UNCHANGED <<storage, appVars, profileVars, stories, now, ticks, uploadVars>>

\* time passes
Tick(d) ==
    /\ ticks < MaxTicks
    /\ now' = now + d
    /\ ticks' = ticks + 1
    /\ last' = Mark("tick")
    /\ UNCHANGED <<storage, appVars, profileVars, stories, storyUi, uploadVars>>

\* the Profile view is open on a profile that was never saved
InitStory ==
    /\ storage = [key \in Keys |-> Null]
    /\ AppMounted(storage)
    /\ uuidCount = 0
    /\ last = NoLast
    /\ rt = NoRoundTrip
    /\ \E uuid \in ProfileUuids, k \in RandomSamples : profile = DefaultProfile(uuid, k)
    /\ loads = <<>>
    /\ stories = <<>>
    /\ now = 0
    /\ ticks = 0
    /\ edit = EditFields(profile)
    /\ storyUi = NoStoryUi
    /\ form = EmptyForm

\* what the user, picking these files, and the file reads do to the story
\* modals, the clock advancing by one of skews inside a publish
NextStoryUiWith(files, skews) ==
    \/ AddStoryClick
    \/ HandleProfilePictureClick
    \/ CloseStoryViewer
    \/ CloseStoryUpload
    \/ \E file \in files : HandleImageChange(file)
    \/ \E file \in files : HandleAudioChange(file)
    \/ ClickPublishStory
    \/ \E i \in 1..MaxStories : ImageRead(i)
    \/ \E i \in 1..MaxStories, skew \in skews : PublishStory(i, skew)
    \/ \E i \in 1..MaxStories : ReadFailed(i)

NextStory ==
    \/ NextStoryUiWith(PickedFiles, ClockSkews)
    \/ \E d \in ClockSteps : Tick(d)

SpecStory == InitStory /\ [][NextStory]_vars

\* sessions of the Profile view: it mounts, the user may edit and save the
\* profile and publish stories, the page is reloaded
NextSession ==
    \/ \E u1, u2 \in ProfileUuids : MountProfile(u1, 0, u2, 0)
    \/ NextEditWith({" Você "}, {" oi "}, {"data:image", NoPicture})
    \/ NextStoryUiWith({"right"}, {0})
    \/ UnmountProfile

\* a page load on a storage without a profile; a session that saves the profile
\* leaves one for the sessions after it
InitSession ==
    /\ storage = [key \in Keys |-> Null]
    /\ AppMounted(storage)
    /\ uuidCount = 0
    /\ last = NoLast
    /\ rt = NoRoundTrip
    /\ profile = NoProfile
    /\ loads = <<>>
    /\ stories = <<>>
    /\ now = 0
    /\ ticks = 0
    /\ edit = NoEdit
    /\ storyUi = NoStoryUi
    /\ form = EmptyForm

SpecSession == InitSession /\ [][NextSession]_vars

-----------------------------------------------------------------------------
(* Properties *)

\* The inclusion predicate as the specification words it: a video is excluded
\* when its description is 'teste' or 'vídeo', or its artist is 'você' in any case.
Excluded(v) ==
    \/ v.description \in {"teste", "vídeo"}
    \/ v.artist \in {"você", "Você", "VOCÊ"}

AllVideos == Range(videos) \cup Range(loadVideos(storage))

\* C1 (Symmetry): after any sequence of addVideo / updateVideo calls, no video
\* that fails the inclusion predicate is in the result of loadVideos(), whether
\* or not it was passed to one of the calls.
C1_Symmetry ==
    \A v \in Range(loadVideos(storage)) : ~Excluded(v)

\* C1 witness: updateVideo was handed an excluded video whose id was stored.
C1_Witness ==
    /\ last.op = "updateVideo"
    /\ last.fl = {}
    /\ Excluded(last.arg)
    /\ HasId(last.storedBefore, last.arg.id)
    /\ Len(loadVideos(storage)) > 0

\* C2: publishing a video that fails the inclusion predicate leaves the
\* in-memory video collection as it was before the call, as it leaves the
\* stored collection.
C2_ExcludedPublishIsNoOp ==
    (last.op = "handlePostVideo" /\ Excluded(last.arg))
        => /\ videos = last.memBefore
           /\ loadVideos(storage) = last.storedBefore

\* C3 (Clamp invariant): the likesCount of every video, in memory and in
\* storage, is never negative.
C3_LikesNeverNegative ==
    \A v \in AllVideos : v.likesCount >= 0

\* C4 (Count invariant): for every video, in memory and in storage,
\* commentsCount equals the length of commentsData.
C4_CountInvariant ==
    \A v \in AllVideos : v.commentsCount = Len(v.commentsData)

\* C4 witness: a stored video that was commented on and liked.
C4_Witness ==
    \E v \in Range(loadVideos(storage)) :
        /\ Len(v.commentsData) = 1
        /\ v.likesCount = 1
        /\ HasId(videos, v.id)

\* C5: when loadProfileData() is called with no profile persisted, the default
\* it returns has a 7-digit displayId and followersCount 0, it is persisted by
\* that call, and the next loadProfileData() returns the same displayId.
C5_DefaultIsPersisted ==
    (Len(loads) = 2 /\ loads[1].before.kind = "null")
        => /\ Len(loads[1].ret["displayId"]) = 7
           /\ loads[1].ret["followersCount"] = 0
           /\ loads[1].after.kind = "json"
           /\ loads[2].ret["displayId"] = loads[1].ret["displayId"]

\* C6 (Idempotent migration): when loadProfileData() is called twice in
\* succession on a stored profile record of any vintage, both calls return the
\* same profile, and after the first call the stored record is that profile,
\* with every backfilled property in it.
C6_IdempotentMigration ==
    (Len(loads) = 2 /\ loads[1].before.kind = "json")
        => /\ loads[2].ret = loads[1].ret
           /\ loads[1].after.kind = "json"
           /\ loads[1].after.val = loads[1].ret
           /\ {"displayId", "followersCount", "isFollowing"} \subseteq DOMAIN loads[1].after.val
           /\ loads[1].after.val["displayId"] # <<>>

\* C6 witness: two successive loads of a record that had none of the later
\* properties.
C6_Witness ==
    /\ Len(loads) = 2
    /\ loads[1].before.kind = "json"
    /\ DOMAIN loads[1].before.val = DOMAIN CoreProfile

\* C7: every story's expiryTime is exactly its timestamp plus 86,400,000 ms.
C7_ExpiryIsTimestampPlusDay ==
    \A story \in Range(stories) : story.expiryTime = story.timestamp + 86400000

\* C8: the current user has active stories, and a story is handed to the story
\* viewer, if and only if the current time is strictly before its expiryTime.
C8_ActiveIffNotExpired ==
    /\ hasActiveStories(stories, profile)
          <=> \E story \in Range(stories) :
                  story.userId = profile["id"] /\ now < story.expiryTime
    /\ \A story \in Range(stories) :
          story \in Range(userStories(stories, profile))
              <=> (story.userId = profile["id"] /\ now < story.expiryTime)

\* C9 (Like round trip): for a stored video with likesCount n whose id is not
\* in the liked set, two like clicks in a row leave likesCount at n in memory
\* and in storage, and the stored liked set without the id.
C9_LikeRoundTrip ==
    rt.phase = 2
        => /\ videos[Index(videos, rt.id)].likesCount = rt.n
           /\ HasId(loadVideos(storage), rt.id)
           /\ loadVideos(storage)[Index(loadVideos(storage), rt.id)].likesCount = rt.n
           /\ ~SetHas(loadLikedVideoIds(storage), rt.id)

\* C9 witness: a round trip was completed while another video is liked.
C9_Witness ==
    /\ rt.phase = 2
    /\ Len(loadLikedVideoIds(storage)) = 1

\* C10: every video of the in-memory collection is in storage as it is in
\* memory (without its transient file), in every reachable state.
C10_StorageNoLaterThanMemory ==
    \A v \in Range(videos) : JsonVideo(StripFile(v)) \in Range(loadVideos(storage))

\* a stored value that is not what the store of that key writes
WrongShape(key, cell) ==
    \/ cell.kind \in {"jsonNull", "number", "string", "object"}
    \/ key = PROFILE_KEY /\ cell.kind = "json" /\ ~({"id", "username"} \subseteq DOMAIN cell.val)

\* the storage fault a loader met: the read threw, the text was not valid
\* JSON, or it had the wrong shape
LoaderFault(key, call) ==
    \/ key \in call.rf
    \/ call.before.kind = "invalid"
    \/ WrongShape(key, call.before)

StoreOps ==
    {"loadVideos", "addVideo", "updateVideo", "loadLikedVideoIds", "saveLikedVideoIds",
     "loadProfileData", "saveProfileData"}

\* C11: no store operation propagates an exception to its caller under any
\* storage fault (read throws, stored text not valid JSON or of the wrong
\* shape, write throws), and under such a fault a loader returns its safe
\* default: the empty list, the empty set, or a synthesized default profile.
C11_NoStoreFaultPropagates ==
    last.op \in StoreOps =>
        /\ ~last.threw
        /\ (last.op = "loadVideos" /\ LoaderFault(VIDEOS_KEY, last)) => last.ret = <<>>
        /\ (last.op = "loadLikedVideoIds" /\ LoaderFault(LIKED_VIDEOS_KEY, last))
               => last.ret = <<>>
        /\ (last.op = "loadProfileData" /\ LoaderFault(PROFILE_KEY, last))
               => \E uuid \in ProfileUuids, k \in RandomSamples :
                      last.ret = DefaultProfile(uuid, k)

\* the stored collection as written: every persisted record, filtered or not
Persisted(st) == IF st[VIDEOS_KEY].kind = "json" THEN st[VIDEOS_KEY].val ELSE <<>>

\* C12: addVideo(v) with v failing the inclusion predicate leaves the stored
\* collection unchanged (v is not written) and returns exactly the current
\* filtered collection; adding a video with description 'teste' to an empty
\* store leaves loadVideos() empty.
C12_ExcludedAddIsNoOp ==
    (last.op = "addVideo" /\ Excluded(last.arg))
        => /\ storage[VIDEOS_KEY] = last.before
           /\ last.ret = last.storedBefore
           /\ loadVideos(storage) = last.storedBefore

\* C12 witness: an excluded video was handed to addVideo on a non-empty store.
C12_Witness ==
    /\ last.op = "addVideo"
    /\ last.arg.description = "teste"
    /\ Len(last.storedBefore) > 0
    /\ last.ret = last.storedBefore

\* C13 as claimed: updateVideo(v), with v's id not in the current filtered
\* collection and v passing the inclusion predicate, adds v after all existing
\* entries, which keep their order, and persists the result.
C13_NotFoundIsAppended ==
    (last.op = "updateVideo" /\ ~Excluded(last.arg) /\ ~HasId(last.storedBefore, last.arg.id))
        => /\ last.ret = Append(last.storedBefore, last.arg)
           /\ loadVideos(storage) = Append(last.storedBefore, JsonVideo(StripFile(last.arg)))

\* C13 as amended: updateVideo(v), with v's id not in the current filtered
\* collection and v passing the inclusion predicate, adds v as a new entry
\* before all existing entries, which keep their order, and persists the result.
C13_NotFoundIsPrepended ==
    (last.op = "updateVideo" /\ ~Excluded(last.arg) /\ ~HasId(last.storedBefore, last.arg.id))
        => /\ last.ret = <<last.arg>> \o last.storedBefore
           /\ loadVideos(storage) = <<JsonVideo(StripFile(last.arg))>> \o last.storedBefore

\* C13 witness: updateVideo added an unknown video to a non-empty store.
C13_Witness ==
    /\ last.op = "updateVideo"
    /\ ~Excluded(last.arg)
    /\ Len(last.storedBefore) > 0
    /\ ~HasId(last.storedBefore, last.arg.id)
    /\ Len(loadVideos(storage)) = Len(last.storedBefore) + 1

\* C14: updateVideo(v), with v's id in the current filtered collection and v
\* passing the inclusion predicate, replaces in place: the result has the same
\* length and the same id at every position, v where v's id was and every
\* other entry unchanged; the result is what is persisted.
C14_ReplaceInPlace ==
    (last.op = "updateVideo" /\ ~Excluded(last.arg) /\ HasId(last.storedBefore, last.arg.id))
        => /\ Len(last.ret) = Len(last.storedBefore)
           /\ \A i \in 1..Len(last.ret) :
                  /\ last.ret[i].id = last.storedBefore[i].id
                  /\ last.ret[i] = IF last.storedBefore[i].id = last.arg.id
                                   THEN last.arg ELSE last.storedBefore[i]
           /\ loadVideos(storage) = JsonVideos([i \in 1..Len(last.ret) |-> StripFile(last.ret[i])])

\* C14 witness: a changed video replaced the second of two stored entries.
C14_Witness ==
    /\ last.op = "updateVideo"
    /\ ~Excluded(last.arg)
    /\ Len(last.storedBefore) = 2
    /\ last.storedBefore[1].id # last.arg.id
    /\ last.storedBefore[2].id = last.arg.id
    /\ last.storedBefore[2].likesCount # last.arg.likesCount
    /\ loadVideos(storage)[2].likesCount = last.arg.likesCount

\* C15: updateVideo(v), with v's id in the current collection and v failing
\* the inclusion predicate, removes that entry from the returned list and from
\* the persisted collection; every other entry stays, in its previous order.
C15_ExcludedUpdateRemoves ==
    (last.op = "updateVideo" /\ Excluded(last.arg) /\ HasId(last.storedBefore, last.arg.id))
        => /\ ~HasId(last.ret, last.arg.id)
           /\ ~HasId(Persisted(storage), last.arg.id)
           /\ last.ret = SelectSeq(last.storedBefore, LAMBDA v : v.id # last.arg.id)
           /\ Persisted(storage) = last.ret

\* C15 witness: an excluded update removed one of two stored entries.
C15_Witness ==
    /\ last.op = "updateVideo"
    /\ Excluded(last.arg)
    /\ Len(last.storedBefore) = 2
    /\ HasId(last.storedBefore, last.arg.id)
    /\ Len(loadVideos(storage)) = 1

\* C16: addVideo(v) with v passing the inclusion predicate prepends:
\* afterwards loadVideos() returns v, without its transient file, at the first
\* position, followed by the previous result of loadVideos() in the same order.
C16_AddPrepends ==
    (last.op = "addVideo" /\ ~Excluded(last.arg))
        => loadVideos(storage) = <<JsonVideo(StripFile(last.arg))>> \o last.storedBefore

\* C16 witness: a video with a file was added to a non-empty store.
C16_Witness ==
    /\ last.op = "addVideo"
    /\ ~Excluded(last.arg)
    /\ last.arg.file = FileObject
    /\ Len(last.storedBefore) > 0
    /\ Len(loadVideos(storage)) = Len(last.storedBefore) + 1

\* C17: after any sequence of addVideo / updateVideo calls no persisted video
\* record has the transient 'file' property, while the list the call returned
\* still has the video it was handed with its 'file'.
C17_NoPersistedFile ==
    /\ \A v \in Range(Persisted(storage)) : v.file = Undefined
    /\ (last.op \in {"addVideo", "updateVideo"} /\ ~Excluded(last.arg))
           => \E i \in 1..Len(last.ret) : last.ret[i] = last.arg

\* C17 witness: a call handed a video with a file returned it with the file and
\* persisted it without.
C17_Witness ==
    /\ last.op \in {"addVideo", "updateVideo"}
    /\ last.arg.file = FileObject
    /\ \E i \in 1..Len(last.ret) : last.ret[i].file = FileObject
    /\ HasId(Persisted(storage), last.arg.id)

\* C18: a comment whose text is empty or only whitespace is rejected: no
\* Comment is constructed (no id is drawn), the video's commentsData and
\* commentsCount are unchanged in memory and in storage, and nothing is
\* written to storage.
C18_BlankCommentRejected ==
    (last.op = "handleAddComment" /\ last.text \in {"", "  "})
        => /\ videos = last.memBefore
           /\ storage[VIDEOS_KEY] = last.before
           /\ loadVideos(storage) = last.storedBefore
           /\ loadLikedVideoIds(storage) = last.likedBefore
           /\ \A v \in AllVideos : \A i \in 1..Len(v.commentsData) :
                  v.commentsData[i].text \notin {"", "  "}

\* C18 witness: a whitespace-only comment was submitted on a stored video that
\* already has a comment.
C18_Witness ==
    /\ last.op = "handleAddComment"
    /\ last.text = "  "
    /\ HasId(loadVideos(storage), last.arg.id)
    /\ last.arg.commentsCount = 1

\* C19 as claimed: after a caption-generation request fails, the caption
\* field of the upload form is empty, also when an earlier request on the same
\* form had succeeded.
C19_CaptionEmptyAfterFailure ==
    last.op = "captionRejected" => form.caption = ""

\* C19 as amended: a failed caption-generation request leaves the caption
\* field as it was just before the failure (empty when nothing had populated
\* it, the earlier generated caption otherwise), never a fallback, and shows
\* the error.
C19_CaptionUnchangedByFailure ==
    last.op = "captionRejected"
        => /\ form.caption = last.text
           /\ form.caption \in {""} \cup GeneratedCaptions
           /\ form.error \in CaptionErrors
           /\ ~form.isGeneratingCaption

\* C19 witness: a request failed on a form with a description and no caption.
C19_Witness ==
    /\ last.op = "captionRejected"
    /\ form.description = "oi"
    /\ form.caption = ""
    /\ form.error # NoError

\* the stored profile record has a displayId
HasDisplayId(st) ==
    /\ st[PROFILE_KEY].kind = "json"
    /\ HasField(st[PROFILE_KEY].val, "displayId")
    /\ st[PROFILE_KEY].val["displayId"] # <<>>

\* C20: once a profile record with a displayId is in storage, no
\* loadProfileData, edit-save or reload changes that displayId, and a load
\* returns it: a displayId is generated only for a record without one.
C20_DisplayIdStable ==
    [][HasDisplayId(storage)
          => /\ HasDisplayId(storage')
             /\ storage'[PROFILE_KEY].val["displayId"] = storage[PROFILE_KEY].val["displayId"]
             /\ (loads' # loads /\ loads' # <<>>)
                    => loads'[Len(loads')].ret["displayId"] = storage[PROFILE_KEY].val["displayId"]
      ]_vars

\* C20 witness: a displayId that migration generated is still the stored one
\* after the Profile view mounted and an edit was saved.
C20_Witness ==
    /\ last.op = "handleSaveClick"
    /\ HasDisplayId(storage)
    /\ storage[PROFILE_KEY].val["displayId"] = GenerateDisplayId(234567)
    /\ storage[PROFILE_KEY].val["id"] = "p0"
    /\ storage[PROFILE_KEY].val["username"] = "Você"

\* the likesCount of video id in list, where the list has it
LikesOf(list, id) == list[Index(list, id)].likesCount

\* C21: every like toggle on a video either adds its id to the stored liked
\* set and raises its likesCount by exactly 1, or removes the id and lowers
\* likesCount by exactly 1 (in memory, and in storage where the video is
\* stored); no toggle changes one without the other.
C21_LikedSetAndCountMoveTogether ==
    last.op = "handleLikeClick" =>
        LET id == last.arg.id
            delta == IF SetHas(last.likedBefore, id) THEN -1 ELSE 1
        IN  /\ SetHas(loadLikedVideoIds(storage), id) = ~SetHas(last.likedBefore, id)
            /\ SetDelete(loadLikedVideoIds(storage), id) = SetDelete(last.likedBefore, id)
            /\ LikesOf(videos, id) = last.arg.likesCount + delta
            /\ HasId(loadVideos(storage), id) = HasId(last.storedBefore, id)
            /\ HasId(last.storedBefore, id)
                   => LikesOf(loadVideos(storage), id) = LikesOf(last.storedBefore, id) + delta

\* C21 witness: a toggle removed the id of a stored video from the liked set.
C21_Witness ==
    /\ last.op = "handleLikeClick"
    /\ SetHas(last.likedBefore, last.arg.id)
    /\ ~SetHas(loadLikedVideoIds(storage), last.arg.id)
    /\ HasId(loadVideos(storage), last.arg.id)
    /\ LikesOf(loadVideos(storage), last.arg.id) = 0

\* the username of the profile the Profile store returns on the storage st
StoredUsername(st) ==
    IF st[PROFILE_KEY].kind = "json" THEN st[PROFILE_KEY].val["username"] ELSE "QuickVidUser"

\* C24: every video produced by video publish has likesCount, commentsCount
\* and shares 0, no comments, and as artist the username of the profile the
\* Profile store returned at publish time.
C24_PublishDefaults ==
    last.op = "handlePostVideo" =>
        /\ videos[1] = last.arg
        /\ videos[1].likesCount = 0
        /\ videos[1].commentsCount = 0
        /\ videos[1].shares = 0
        /\ videos[1].commentsData = <<>>
        /\ videos[1].artist = StoredUsername(storage)

\* C24 witness: a video was published under a saved profile's username.
C24_Witness ==
    /\ last.op = "handlePostVideo"
    /\ Len(videos) > 0
    /\ videos[1].artist = "Você"
    /\ storage[PROFILE_KEY].kind = "json"

\* C25: the direction of a like toggle is the opposite of the membership read
\* from the liked-set store at the moment of the toggle: it unlikes (lowers
\* likesCount) if the stored set has the id and likes (raises it) otherwise,
\* also after a liked-set write that failed silently.
C25_DirectionFromStoredMembership ==
    last.op = "handleLikeClick" =>
        LikesOf(videos, last.arg.id) =
            last.arg.likesCount + (IF SetHas(last.likedBefore, last.arg.id) THEN -1 ELSE 1)

\* the operations of each store
VideoStoreOps == {"loadVideos", "addVideo", "updateVideo"}
LikedStoreOps == {"loadLikedVideoIds", "saveLikedVideoIds"}
ProfileStoreOps == {"loadProfileData", "saveProfileData"}

\* C27: each store writes only its own storage key: a call of the video store
\* leaves the liked-videos and profile keys as they were, a call of the
\* liked-set store leaves the videos and profile keys, and a call of the
\* profile store leaves the videos and liked-videos keys.
C27_EachStoreWritesOwnKey ==
    [][/\ last'.op \in VideoStoreOps =>
              /\ storage'[LIKED_VIDEOS_KEY] = storage[LIKED_VIDEOS_KEY]
              /\ storage'[PROFILE_KEY] = storage[PROFILE_KEY]
       /\ last'.op \in LikedStoreOps =>
              /\ storage'[VIDEOS_KEY] = storage[VIDEOS_KEY]
              /\ storage'[PROFILE_KEY] = storage[PROFILE_KEY]
       /\ last'.op \in ProfileStoreOps =>
              /\ storage'[VIDEOS_KEY] = storage[VIDEOS_KEY]
              /\ storage'[LIKED_VIDEOS_KEY] = storage[LIKED_VIDEOS_KEY]]_vars

\* C27 witness: the liked-set store rewrote its key while the other two keys
\* held data.
C27_Witness ==
    /\ last.op = "saveLikedVideoIds"
    /\ ~last.threw
    /\ storage[LIKED_VIDEOS_KEY] # last.before
    /\ storage[VIDEOS_KEY].kind = "json"
    /\ Len(storage[VIDEOS_KEY].val) > 0
    /\ storage[PROFILE_KEY].kind = "json"

\* C29: after any sequence of addVideo and updateVideo calls, no two entries
\* returned by loadVideos() share an id.
C29_StoredIdsUnique ==
    LET stored == loadVideos(storage)
    IN  \A i, j \in 1..Len(stored) : i # j => stored[i].id # stored[j].id

Others(list, id) == SelectSeq(list, LAMBDA w : w.id # id)

\* new is old with exactly one comment, of this text, added at the end
OneCommentAppended(old, new, text) ==
    /\ Len(new.commentsData) = Len(old.commentsData) + 1
    /\ SubSeq(new.commentsData, 1, Len(old.commentsData)) = old.commentsData
    /\ new.commentsData[Len(new.commentsData)].text = text
    /\ new = [old EXCEPT !.commentsData = new.commentsData,
                         !.commentsCount = old.commentsCount + 1]

\* C26: a successful comment add on video v appends exactly one comment (the
\* trimmed text) at the end of v.commentsData, raises v.commentsCount by 1 and
\* leaves every other field of v, every earlier comment, every other video
\* and the liked set unchanged, in memory and in storage.
C26_CommentAddFrame ==
    (last.op = "handleAddComment" /\ trim(last.text) # "") =>
        LET id == last.arg.id
            stored == loadVideos(storage)
        IN  /\ OneCommentAppended(last.arg, videos[Index(videos, id)], trim(last.text))
            /\ Len(videos) = Len(last.memBefore)
            /\ Index(videos, id) = Index(last.memBefore, id)
            /\ Others(videos, id) = Others(last.memBefore, id)
            /\ loadLikedVideoIds(storage) = last.likedBefore
            /\ Others(stored, id) = Others(last.storedBefore, id)
            /\ HasId(stored, id) = HasId(last.storedBefore, id)
            /\ HasId(stored, id) =>
                   /\ Index(stored, id) = Index(last.storedBefore, id)
                   /\ OneCommentAppended(last.storedBefore[Index(stored, id)],
                                         stored[Index(stored, id)], trim(last.text))

\* C26 witness: a second comment was added to a stored video while another
\* video and a liked id were stored.
C26_Witness ==
    /\ last.op = "handleAddComment"
    /\ trim(last.text) # ""
    /\ Len(last.arg.commentsData) = 1
    /\ HasId(loadVideos(storage), last.arg.id)
    /\ Len(loadVideos(storage)[Index(loadVideos(storage), last.arg.id)].commentsData) = 2
    /\ Len(loadVideos(storage)) >= 2
    /\ loadLikedVideoIds(storage) # <<>>

\* C28: the local user's profile id is stable across sessions: whenever the
\* Profile view holds the profile loadProfileData() returned, every story the
\* user published, in this session or an earlier one, has that profile's id as
\* userId, also when the user never saved a profile edit.
C28_StoryOwnerIsCurrentProfile ==
    profile # NoProfile =>
        \A i \in 1..Len(stories) : stories[i].userId = profile["id"]

\* the steps that start a caption request or a video publish
StartsRequestOrPublish == {"handleGenerateCaption", "handlePostVideo", "postRejected"}

\* C30: at most one caption-generation request is in flight per upload form:
\* the in-flight flag is true exactly while a request is outstanding, no new
\* request and no video publish starts while it is true, and it is false
\* after every request completes, fulfilled or rejected.
C30_OneCaptionRequestInFlight ==
    /\ [](/\ form.pending <= 1
          /\ form.isGeneratingCaption <=> form.pending = 1
          /\ last.op \in {"captionFulfilled", "captionRejected"}
                 => ~form.isGeneratingCaption /\ form.pending = 0)
    /\ [][(form.isGeneratingCaption /\ last' # last)
               => last'.op \notin StartsRequestOrPublish]_vars

\* C30 witness: a request is outstanding on a form that has a file, a
\* thumbnail and a description, so only the flag holds back both buttons.
C30_Witness ==
    /\ form.isGeneratingCaption
    /\ form.pending = 1
    /\ form.selectedFile
    /\ form.videoPreviewUrl
    /\ form.thumbnailPreviewUrl
    /\ form.description # ""

\* the rejecting step published and persisted nothing
NothingPublished ==
    /\ videos = last.memBefore
    /\ storage[VIDEOS_KEY] = last.before
    /\ loadVideos(storage) = last.storedBefore

\* C22: every validation rejection (a blank comment, a video that fails the
\* inclusion predicate, an upload form without file, description-or-caption
\* or thumbnail) shows the user a message and publishes or persists nothing.
C22_RejectionShowsMessage ==
    ( \/ last.op = "handleAddComment" /\ trim(last.text) = ""
      \/ last.op = "handlePostVideo" /\ ~shouldIncludeVideo(last.arg)
      \/ last.op = "postRejected" )
        => ErrorShown # NoError /\ NothingPublished

=============================================================================
